---- MODULE Spec2Model ----
(***************************************************************************)
(* Flow3rTron (src/__init__.py): the light-cycle game of the flow3r badge. *)
(*                                                                         *)
(* Coordinates are Python floats in the source.  The model keeps them in   *)
(* fixed point: a coordinate c of the source is the integer c * Scale, and *)
(* math.sin / math.cos of the ten petal directions are the table entries   *)
(* round(Scale * sin), round(Scale * cos).  Direction 0 is exact (sin = 0, *)
(* cos = 1), as it is in floating point.  math.isclose(v, 0) with its      *)
(* default tolerances (rel_tol = 1e-9, abs_tol = 0) is true only of v = 0, *)
(* which is how the model computes it.                                     *)
(***************************************************************************)
EXTENDS Integers, Sequences, FiniteSets, TLC

(* fixed-point units per source coordinate unit *)
Scale == 50

(* ---- bounds of the model ---- *)
(* delta_ms of a tick is k * 500 for k in 0..MaxDeltaSteps *)
MaxDeltaSteps == 2
(* at most this many petals are pressed in one tick *)
MaxPressed == 1
(* a tick that would make a waypoint list longer than this is not explored *)
MaxTraces == 3
(* the wall clock is not explored beyond this reading *)
MaxTime == 4
(* the clock bound of the two-agent board, the waypoint bound of direct    *)
(* Player calls                                                           *)
MaxDuelTime == 3
MaxApiTraces == 2
(* direct calls of collides take their points from (0..GridMax) x (0..GridMax) *)
GridMax == 2
MaxHeld == 2
MaxInputTime == 2
MaxLiveTime == 10

Deltas == {k * 500 : k \in 0..MaxDeltaSteps}
Petals == 0..9
PetalSets == {ps \in SUBSET Petals : Cardinality(ps) <= MaxPressed}

(* ---- program constants ---- *)
Radius == 120
DefaultSpeed == 60
StartX == -50
StartY == 0
NumPetals == 10
FullCircle == 360

Pt(x, y) == <<x * Scale, y * Scale>>
start_pos == Pt(StartX, StartY)

VARIABLES
    players,      \* Board.players: player id -> Player
    done,         \* TronGame._done
    start_time,   \* TronGame._start_time
    duration,     \* TronGame._duration
    now,          \* the last reading of time.time_ns()
    op,           \* the last call made: <<name>> or <<name, argument>>; a
                  \* GameView.think that replaced the game is "new" with the
                  \* right button, the pressed petals and delta_ms
    segA, segB,   \* arguments of a direct call of collides
    hit           \* its result: <<>> before the call, then <<TRUE>> or <<FALSE>>

vars == <<players, done, start_time, duration, now, op, segA, segB, hit>>

(* ---- math.sin, math.cos of (direction * tau) / 360, times Scale ---- *)
SinTable == <<0, 29, 48, 48, 29, 0, -29, -48, -48, -29>>
CosTable == <<50, 40, 15, -15, -40, -50, -40, -15, 15, 40>>
Sin(direction) == SinTable[(direction \div 36) + 1]
Cos(direction) == CosTable[(direction \div 36) + 1]

(* ---- collides(a, b) ---- *)
denominator_a(a, b) ==
    ((b[2][1] - b[1][1]) * (a[1][2] - b[1][2]))
        - ((b[2][2] - b[1][2]) * (a[1][1] - b[1][1]))

denominator_b(a, b) ==
    ((a[2][1] - a[1][1]) * (a[1][2] - b[1][2]))
        - ((a[2][2] - a[1][2]) * (a[1][1] - b[1][1]))

numerator(a, b) ==
    (b[2][2] - b[1][2]) * (a[2][1] - a[1][1])
        - (b[2][1] - b[1][1]) * (a[2][2] - a[1][2])

isclose0(v) == v = 0

(* the closed interval 0 <= n / d <= 1 *)
InClosedUnit(n, d) ==
    IF d > 0 THEN 0 <= n /\ n <= d ELSE d <= n /\ n <= 0

(* 0 < n / d < 1 for d # 0, without dividing *)
InOpenUnit(n, d) ==
    IF d > 0 THEN 0 < n /\ n < d ELSE d < n /\ n < 0

(* every pair of parallel segments reported apart, coincident or not *)
collides_parallel(a, b) ==
    IF isclose0(numerator(a, b))
    THEN FALSE
    ELSE InOpenUnit(denominator_a(a, b), numerator(a, b))
         /\ InOpenUnit(denominator_b(a, b), numerator(a, b))

collides(a, b) ==
    IF isclose0(numerator(a, b)) /\ isclose0(denominator_a(a, b))
    THEN TRUE
    ELSE IF isclose0(numerator(a, b))
    THEN FALSE
    ELSE InOpenUnit(denominator_a(a, b), numerator(a, b))
         /\ InOpenUnit(denominator_b(a, b), numerator(a, b))

(* ---- Player ---- *)
Player(pos) ==
    [pos |-> pos, direction |-> 0, speed |-> DefaultSpeed,
     traces |-> <<pos>>, dead |-> FALSE]

get_traces(p) ==
    LET pts == Append(p.traces, p.pos)
    IN  [k \in 1..(Len(pts) - 1) |-> <<pts[k], pts[k + 1]>>]

die(p) == [p EXCEPT !.dead = TRUE]

my_latest_trace(p) == <<p.traces[Len(p.traces)], p.pos>>

(* the scan without the equality test *)
RECURSIVE scan_traces_noskip(_, _, _)
scan_traces_noskip(p, mine, rest) ==
    IF rest = <<>> THEN p
    ELSE IF collides(mine, Head(rest)) THEN scan_traces_noskip(die(p), mine, Tail(rest))
    ELSE scan_traces_noskip(p, mine, Tail(rest))

RECURSIVE scan_traces(_, _, _)
scan_traces(p, mine, rest) ==
    IF rest = <<>> THEN p
    ELSE IF Head(rest) = mine THEN scan_traces(p, mine, Tail(rest))
    ELSE IF collides(mine, Head(rest)) THEN scan_traces(die(p), mine, Tail(rest))
    ELSE scan_traces(p, mine, Tail(rest))

check_collision(p, all_traces) ==
    IF p.dead THEN p ELSE scan_traces(p, my_latest_trace(p), all_traces)

(* a waypoint appended without comparing the direction *)
set_direction_always(p, direction) ==
    IF (direction - p.direction) % FullCircle = 180 THEN p
    ELSE [p EXCEPT !.direction = direction, !.traces = Append(p.traces, p.pos)]

(* the reversal not refused *)
set_direction_any(p, direction) ==
    IF direction # p.direction
    THEN [p EXCEPT !.direction = direction, !.traces = Append(p.traces, p.pos)]
    ELSE p

set_direction(p, direction) ==
    IF (direction - p.direction) % FullCircle = 180 THEN p
    ELSE IF direction # p.direction
    THEN [p EXCEPT !.direction = direction, !.traces = Append(p.traces, p.pos)]
    ELSE p

(* the circle itself counted as outside *)
OutOfArena_closed(pos) ==
    (pos[1] * pos[1]) + (pos[2] * pos[2]) >= (Radius * Scale) * (Radius * Scale)

(* the arena test on the y coordinate alone *)
OutOfArena_y(pos) == pos[2] * pos[2] > (Radius * Scale) * (Radius * Scale)

OutOfArena(pos) ==
    (pos[1] * pos[1]) + (pos[2] * pos[2]) > (Radius * Scale) * (Radius * Scale)

(* sin and cos exchanged *)
moved_pos_swapped(p, delta_ms) ==
    <<p.pos[1] + ((p.speed * delta_ms * Cos(p.direction)) \div 1000),
      p.pos[2] - ((p.speed * delta_ms * Sin(p.direction)) \div 1000)>>

moved_pos(p, delta_ms) ==
    <<p.pos[1] + ((p.speed * delta_ms * Sin(p.direction)) \div 1000),
      p.pos[2] - ((p.speed * delta_ms * Cos(p.direction)) \div 1000)>>

(* no early return for a dead player *)
move_dead(p, delta_ms) ==
    LET q == [p EXCEPT !.pos = moved_pos(p, delta_ms)]
    IN  IF OutOfArena(q.pos) THEN die(q) ELSE q

(* no early return for a dead player, and the flag assigned from the test *)
move_resurrect(p, delta_ms) ==
    LET q == [p EXCEPT !.pos = moved_pos(p, delta_ms)]
    IN  [q EXCEPT !.dead = OutOfArena(q.pos)]

move(p, delta_ms) ==
    IF p.dead THEN p
    ELSE LET q == [p EXCEPT !.pos = moved_pos(p, delta_ms)]
         IN  IF OutOfArena(q.pos) THEN die(q) ELSE q

(* ---- Board ---- *)
local_player == 0

Board == (0 :> Player(start_pos))

(* the petals Board.think looks at: range(0, 10, stepsize), stepsize = 2 *)
ScannedPetals == {i \in Petals : i % 2 = 0}

(* the loop over the petals without its break *)
RECURSIVE steer_all(_, _, _)
steer_all(ps, pressed, scan) ==
    IF scan = <<>> THEN ps
    ELSE IF Head(scan) \in pressed
    THEN steer_all([ps EXCEPT ![local_player] =
                       set_direction(ps[local_player], (Head(scan) * FullCircle) \div NumPetals)],
                   pressed, Tail(scan))
    ELSE steer_all(ps, pressed, Tail(scan))

apply_input_nobreak(ps, pressed) == steer_all(ps, pressed, <<0, 2, 4, 6, 8>>)

apply_input(ps, pressed) ==
    LET on == pressed \cap ScannedPetals
    IN  IF on = {} THEN ps
        ELSE LET i == CHOOSE j \in on : \A k \in on : j <= k
             IN  [ps EXCEPT ![local_player] =
                     set_direction(ps[local_player], (i * FullCircle) \div NumPetals)]

move_players(ps, delta_ms) == [id \in DOMAIN ps |-> move(ps[id], delta_ms)]

(* the trails of the players that are still alive only *)
RECURSIVE chain_traces_alive(_, _)
chain_traces_alive(ps, ids) ==
    IF ids = <<>> THEN <<>>
    ELSE IF ps[Head(ids)].dead THEN chain_traces_alive(ps, Tail(ids))
    ELSE get_traces(ps[Head(ids)]) \o chain_traces_alive(ps, Tail(ids))

(* chain(pl.get_traces() for pl in self.players.values()) *)
RECURSIVE chain_traces(_, _)
chain_traces(ps, ids) ==
    IF ids = <<>> THEN <<>>
    ELSE get_traces(ps[Head(ids)]) \o chain_traces(ps, Tail(ids))

(* the checks of a tick ended by the first agent found dead *)
RECURSIVE check_collisions_stop(_, _, _)
check_collisions_stop(ps, order, todo) ==
    IF todo = <<>> THEN ps
    ELSE LET id == Head(todo)
             qs == [ps EXCEPT ![id] = check_collision(ps[id], chain_traces(ps, order))]
         IN  IF qs[id].dead THEN qs ELSE check_collisions_stop(qs, order, Tail(todo))

RECURSIVE check_collisions(_, _, _)
check_collisions(ps, order, todo) ==
    IF todo = <<>> THEN ps
    ELSE LET id == Head(todo)
         IN  check_collisions(
                 [ps EXCEPT ![id] = check_collision(ps[id], chain_traces(ps, order))],
                 order, Tail(todo))

(* Board.think; order is the iteration order of self.players.values() *)
board_think(ps, pressed, delta_ms, order) ==
    check_collisions(move_players(apply_input(ps, pressed), delta_ms), order, order)

(* over as soon as one agent is dead *)
game_over_any(ps) == \E id \in DOMAIN ps : ps[id].dead

game_over(ps) == \A id \in DOMAIN ps : ps[id].dead

(* ---- TronGame ---- *)
(* TronGame.think after Board.think gave ps: the new _done and _duration *)
(* the flag never set *)
think_done_unset(d, ps) == d

think_done(d, ps) == IF game_over(ps) THEN TRUE ELSE d

(* the duration captured without looking at _done *)
think_duration_relatch(d, dur, ps, t, st) ==
    IF game_over(ps) THEN t - st ELSE dur

think_duration(d, dur, ps, t, st) ==
    IF game_over(ps) THEN (IF ~d THEN t - st ELSE dur) ELSE dur

NoProbe ==
    /\ segA = <<(<<0, 0>>), (<<0, 0>>)>>
    /\ segB = <<(<<0, 0>>), (<<0, 0>>)>>
    /\ hit = <<>>

(* GameView.__init__: a TronGame on the board of Board.__init__ *)
Init ==
    /\ players = Board
    /\ done = FALSE
    /\ start_time = 0
    /\ duration = 0
    /\ now = 0
    /\ op = <<"new">>
    /\ NoProbe

(* no waypoint list grows beyond the bound *)
WithinTraces(ps, n) == \A id \in DOMAIN ps : Len(ps[id].traces) <= n

(* the game replaced whenever the button is pressed *)
restarts_unfinished(is_done, right) == right

(* GameView.think after TronGame.think: the game is replaced when it is   *)
(* done and the right app button is pressed                               *)
restarts(is_done, right) == is_done /\ right

(* The clock is read once per think and has advanced by one unit since the   *)
(* last reading; thinks with delta_ms = 0 and no input make the time between *)
(* two effective thinks arbitrary.                                           *)
(* GameView.think: TronGame.think, then the restart on the right app button. *)
GameViewThink(pressed, right, delta_ms) ==
    /\ now + 1 <= MaxTime
    /\ \E ps \in {board_think(players, pressed, delta_ms, <<0>>)} :
        /\ WithinTraces(ps, MaxTraces)
        /\ now' = now + 1
        /\ IF restarts(think_done(done, ps), right)
           THEN /\ players' = Board
                /\ done' = FALSE
                /\ start_time' = now'
                /\ duration' = 0
                /\ op' = <<"new", right, pressed, delta_ms>>
           ELSE /\ players' = ps
                /\ done' = think_done(done, ps)
                /\ start_time' = start_time
                /\ duration' = think_duration(done, duration, ps, now', start_time)
                /\ op' = <<"think">>
    /\ UNCHANGED <<segA, segB, hit>>

Next ==
    \E pressed \in PetalSets, right \in BOOLEAN, delta_ms \in Deltas :
        GameViewThink(pressed, right, delta_ms)

Spec == Init /\ [][Next]_vars

(* ---- a match nobody steers ---- *)
(* TronGame.think with no petal pressed.  Clock readings from MaxLiveTime *)
(* on are not told apart, so that a tick can always arrive.               *)
LiveThink(delta_ms) ==
    /\ \E ps \in {board_think(players, {}, delta_ms, <<0>>)} :
        /\ now' = IF now < MaxLiveTime THEN now + 1 ELSE now
        /\ players' = ps
        /\ done' = think_done(done, ps)
        /\ duration' = think_duration(done, duration, ps, now', start_time)
        /\ op' = <<"think">>
    /\ UNCHANGED <<start_time, segA, segB, hit>>

PositiveThink == \E delta_ms \in Deltas \ {0} : LiveThink(delta_ms)

NextLive == \E delta_ms \in Deltas : LiveThink(delta_ms)

(* ticks with delta_ms > 0 keep arriving *)
SpecLive == Init /\ [][NextLive]_vars /\ WF_vars(PositiveThink)

(* ---- a board holding two agents ---- *)
(* Board.players is a dict; Board.__init__ puts one Player into it.  The   *)
(* duel board holds a second Player(start_pos), which no input steers.     *)
DuelStarts == {Pt(-20, 0), Pt(20, 40)}
Orders == {<<0, 1>>, <<1, 0>>}

InitDuel ==
    /\ \E sp \in DuelStarts : players = (0 :> Player(start_pos)) @@ (1 :> Player(sp))
    /\ done = FALSE
    /\ start_time = 0
    /\ duration = 0
    /\ now = 0
    /\ op = <<"new">>
    /\ NoProbe

(* TronGame.think on the duel board *)
DuelThink(pressed, delta_ms, order) ==
    /\ now + 1 <= MaxDuelTime
    /\ \E ps \in {board_think(players, pressed, delta_ms, order)} :
        /\ WithinTraces(ps, MaxTraces)
        /\ now' = now + 1
        /\ players' = ps
        /\ done' = think_done(done, ps)
        /\ duration' = think_duration(done, duration, ps, now', start_time)
        /\ op' = <<"think">>
    /\ UNCHANGED <<start_time, segA, segB, hit>>

NextDuel ==
    \E pressed \in PetalSets, delta_ms \in Deltas, order \in Orders :
        DuelThink(pressed, delta_ms, order)

SpecDuel == InitDuel /\ [][NextDuel]_vars

(* ---- Board.think called with several petals pressed ---- *)
HeldSets == {ps \in SUBSET Petals : Cardinality(ps) <= MaxHeld}
InputDeltas == {500}

BoardThink(pressed, delta_ms) ==
    /\ now + 1 <= MaxInputTime
    /\ now' = now + 1
    /\ players' = board_think(players, pressed, delta_ms, <<0, 1>>)
    /\ op' = <<"board_think", pressed>>
    /\ UNCHANGED <<done, start_time, duration, segA, segB, hit>>

NextInput ==
    \E pressed \in HeldSets, delta_ms \in InputDeltas : BoardThink(pressed, delta_ms)

SpecInput == InitDuel /\ [][NextInput]_vars

(* ---- direct calls of the Player methods ---- *)
ApiStarts == {start_pos, Pt(0, 0), Pt(-72, -36)}
AllDirections == {k * 36 : k \in 0..9}

InitPlayer ==
    /\ \E sp \in ApiStarts : players = (0 :> Player(sp))
    /\ done = FALSE
    /\ start_time = 0
    /\ duration = 0
    /\ now = 0
    /\ op = <<"new">>
    /\ NoProbe

ApiSetDirection(direction) ==
    /\ \E p \in {set_direction(players[0], direction)} :
        /\ Len(p.traces) <= MaxApiTraces
        /\ players' = (0 :> p)
    /\ op' = <<"set_direction", direction>>
    /\ UNCHANGED <<done, start_time, duration, now, segA, segB, hit>>

ApiMove(delta_ms) ==
    /\ players' = (0 :> move(players[0], delta_ms))
    /\ op' = <<"move", delta_ms>>
    /\ UNCHANGED <<done, start_time, duration, now, segA, segB, hit>>

ApiCheckCollision ==
    /\ players' = (0 :> check_collision(players[0], get_traces(players[0])))
    /\ op' = <<"check_collision">>
    /\ UNCHANGED <<done, start_time, duration, now, segA, segB, hit>>

NextPlayer ==
    \/ \E direction \in AllDirections : ApiSetDirection(direction)
    \/ \E delta_ms \in Deltas : ApiMove(delta_ms)
    \/ ApiCheckCollision

SpecPlayer == InitPlayer /\ [][NextPlayer]_vars

(* ---- direct calls of collides ---- *)
GridPoints == {<<x, y>> : x \in 0..GridMax, y \in 0..GridMax}
GridSegments == GridPoints \X GridPoints

InitGeom ==
    /\ players = Board
    /\ done = FALSE
    /\ start_time = 0
    /\ duration = 0
    /\ now = 0
    /\ op = <<"new">>
    /\ segA \in GridSegments
    /\ segB \in GridSegments
    /\ hit = <<>>

Collide ==
    /\ hit = <<>>
    /\ hit' = <<collides(segA, segB)>>
    /\ op' = <<"collides">>
    /\ UNCHANGED <<players, done, start_time, duration, now, segA, segB>>

NextGeom == Collide

SpecGeom == InitGeom /\ [][NextGeom]_vars

(* ======================= properties of a match ======================= *)
(* the points of a trail in order: the waypoints, then the head *)
TrailPoints(p) == Append(p.traces, p.pos)
Sq(v) == v * v
InsideCircle(pos) == Sq(pos[1]) + Sq(pos[2]) <= Sq(120 * Scale)
OnCircle(pos) == Sq(pos[1]) + Sq(pos[2]) = Sq(120 * Scale)
Thinks == {<<"think">>}

(* C2: once the match is done, a further TronGame.think leaves _done and   *)
(* _duration as they are.                                                  *)
C2_DurationLatched ==
    [][(done /\ op' \in Thinks) => (done' /\ duration' = duration)]_vars

(* a done match that has been ticked again after its duration was taken *)
C2_Witness ==
    /\ done
    /\ op \in Thinks
    /\ duration > 0
    /\ now > start_time + duration

(* C4: a tick with delta_ms = 0, whatever the input, changes no agent's    *)
(* position and no agent's dead flag.                                      *)
C4_ZeroTickKeepsAgents ==
    [][\A pressed \in PetalSets :
          GameViewThink(pressed, FALSE, 0) =>
              \A id \in DOMAIN players :
                  /\ players'[id].pos = players[id].pos
                  /\ players'[id].dead = players[id].dead]_vars

(* C6: once an agent has left its spawn point, no segment of its trail     *)
(* (consecutive waypoints, then the head) has its start equal to its end.  *)
C6_NoZeroLengthSegment ==
    \A id \in DOMAIN players :
        LET pts == TrailPoints(players[id])
        IN  pts[Len(pts)] # pts[1] =>
                \A k \in 1..(Len(pts) - 1) : pts[k] # pts[k + 1]

(* C8: a think never turns a dead agent alive again. *)
C8_DeathIsMonotonic ==
    [][op' \in Thinks =>
          \A id \in DOMAIN players : players[id].dead => players'[id].dead]_vars

(* an agent that died inside the arena, in a match ticked again since *)
C8_Witness ==
    /\ players[0].dead
    /\ InsideCircle(players[0].pos)
    /\ op \in Thinks
    /\ now > start_time + duration

(* the agent has never changed its direction *)
NeverTurned(p) == Len(p.traces) = 1 /\ p.direction = 0

(* C9 as stated: without input the default agent is alive exactly while    *)
(* |y| <= 120.                                                             *)
C9_ExitAtY120 ==
    LET p == players[0]
    IN  NeverTurned(p) => (p.dead <=> Sq(p.pos[2]) > Sq(120 * Scale))

(* C9 amended: without input the default agent stays on x = -50 and is     *)
(* alive exactly while 50^2 + y^2 <= 120^2.                                *)
C9_ExitAtCircle ==
    LET p == players[0]
    IN  NeverTurned(p) =>
            /\ p.pos[1] = (-50) * Scale
            /\ p.dead <=> (Sq(50 * Scale) + Sq(p.pos[2]) > Sq(120 * Scale))

(* the agent that went straight on and has left the arena *)
C9_Witness ==
    /\ NeverTurned(players[0])
    /\ players[0].dead
    /\ players[0].pos[2] < 0
    /\ done

(* C10: the first tick of a fresh game with delta_ms = 1000 and no petal   *)
(* pressed puts the agent at (-50, -60), alive, its waypoint list still    *)
(* [(-50, 0)], and the match not done.                                     *)
C10_FirstTick ==
    [][(op[1] = "new" /\ \E right \in BOOLEAN : GameViewThink({}, right, 1000)) =>
          /\ players'[0].pos = <<(-50) * Scale, (-60) * Scale>>
          /\ ~players'[0].dead
          /\ players'[0].traces = <<(<<(-50) * Scale, 0>>)>>
          /\ ~done']_vars

(* the state after exactly one think, which moved the agent 60 units *)
C10_Witness ==
    /\ op \in Thinks
    /\ now = start_time + 1
    /\ players[0].pos = <<(-50) * Scale, (-60) * Scale>>
    /\ ~players[0].dead
    /\ ~done

(* ================== properties of the two-agent board ================== *)
Sign(v) == IF v > 0 THEN 1 ELSE IF v < 0 THEN -1 ELSE 0
(* twice the signed area of the triangle p, q, r *)
Orient(p, q, r) ==
    ((q[1] - p[1]) * (r[2] - p[2])) - ((q[2] - p[2]) * (r[1] - p[1]))
(* the segments cross in a point interior to both *)
ProperCross(a, b) ==
    /\ Sign(Orient(a[1], a[2], b[1])) * Sign(Orient(a[1], a[2], b[2])) < 0
    /\ Sign(Orient(b[1], b[2], a[1])) * Sign(Orient(b[1], b[2], a[2])) < 0
Live(p) == <<p.traces[Len(p.traces)], p.pos>>

(* C1: when two agents alive before a tick have live segments that cross   *)
(* after it, both are dead after it, in either iteration order.            *)
C1_SimultaneousDeath ==
    [][\A i, j \in DOMAIN players :
          (/\ i # j
           /\ op' \in Thinks
           /\ ~players[i].dead
           /\ ~players[j].dead
           /\ ProperCross(Live(players'[i]), Live(players'[j])))
          => (players'[i].dead /\ players'[j].dead)]_vars

NoZeroLength(p) ==
    \A k \in 1..Len(p.traces) : TrailPoints(p)[k] # TrailPoints(p)[k + 1]

(* both agents dead inside the arena with crossing live segments, in the   *)
(* tick that ended the match, neither trail holding a zero-length segment  *)
C1_Witness ==
    /\ DOMAIN players = {0, 1}
    /\ \A i \in {0, 1} :
          /\ players[i].dead
          /\ InsideCircle(players[i].pos)
          /\ NoZeroLength(players[i])
    /\ ProperCross(Live(players[0]), Live(players[1]))
    /\ op \in Thinks
    /\ now = start_time + duration

(* ================= properties of the Player methods ================= *)
(* C3: move on an alive agent kills it exactly when the new position has   *)
(* x^2 + y^2 > 120^2; on the circle itself it stays alive.                 *)
C3_BoundaryRule ==
    [][\A d \in Deltas :
          (op' = <<"move", d>> /\ ~players[0].dead)
          => (players'[0].dead <=> ~InsideCircle(players'[0].pos))]_vars

(* an agent that move has put exactly on the circle, alive *)
C3_Witness ==
    /\ \E d \in Deltas : d > 0 /\ op = <<"move", d>>
    /\ OnCircle(players[0].pos)
    /\ ~players[0].dead

(* C7: set_direction(d) with (d - d0) mod 360 = 180 changes neither the    *)
(* direction nor the waypoint list.                                        *)
C7_NoReversal ==
    [][\A d \in AllDirections :
          (op' = <<"set_direction", d>> /\ (d - players[0].direction) % 360 = 180)
          => /\ players'[0].direction = players[0].direction
             /\ players'[0].traces = players[0].traces]_vars

(* the state after a refused reversal *)
C7_Witness ==
    \E d \in AllDirections :
        /\ op = <<"set_direction", d>>
        /\ (d - players[0].direction) % 360 = 180

(* ====================== properties of collides ====================== *)
NonDegenerate(a) == a[1] # a[2]
SharedEndpoints(a, b) == {a[1], a[2]} \cap {b[1], b[2]}
OnOneLine(a, b) == Orient(a[1], a[2], b[1]) = 0 /\ Orient(a[1], a[2], b[2]) = 0

(* C5 as stated: two non-degenerate segments that share exactly one        *)
(* endpoint do not collide.                                                *)
C5_SharedEndpointNoHit ==
    (/\ hit # <<>>
     /\ NonDegenerate(segA)
     /\ NonDegenerate(segB)
     /\ Cardinality(SharedEndpoints(segA, segB)) = 1)
    => hit = <<FALSE>>

(* C5 amended: two non-degenerate segments that share exactly one endpoint *)
(* and do not lie on one line do not collide.                              *)
C5_SharedEndpointOffLine ==
    (/\ hit # <<>>
     /\ NonDegenerate(segA)
     /\ NonDegenerate(segB)
     /\ Cardinality(SharedEndpoints(segA, segB)) = 1
     /\ ~OnOneLine(segA, segB))
    => hit = <<FALSE>>

(* collides has answered for two segments that meet in one endpoint at an  *)
(* angle                                                                   *)
C5_Witness ==
    /\ hit = <<FALSE>>
    /\ NonDegenerate(segA)
    /\ NonDegenerate(segB)
    /\ Cardinality(SharedEndpoints(segA, segB)) = 1
    /\ ~OnOneLine(segA, segB)

(* ---- the self-skip of check_collision ---- *)
(* the candidates of all_traces other than the live segment *)
OtherCandidates(p, all_traces) ==
    {all_traces[k] : k \in DOMAIN all_traces} \ {Live(p)}

(* C11: check_collision of an alive agent whose live segment collides with *)
(* no candidate other than itself leaves the agent alive, although the     *)
(* live segment is among the candidates and collides with itself.          *)
C11_SelfSegmentSkipped ==
    [][(/\ op' = <<"check_collision">>
        /\ ~players[0].dead
        /\ \A t \in OtherCandidates(players[0], get_traces(players[0])) :
               ~collides(Live(players[0]), t))
       => /\ ~players'[0].dead
          /\ \E k \in DOMAIN get_traces(players[0]) :
                get_traces(players[0])[k] = Live(players[0])
          /\ collides(Live(players[0]), Live(players[0]))]_vars

(* an agent that turned once and moved on is checked against its own trail *)
(* and stays alive                                                          *)
C11_Witness ==
    /\ op = <<"check_collision">>
    /\ ~players[0].dead
    /\ Len(players[0].traces) = 2
    /\ NonDegenerate(Live(players[0]))
    /\ NonDegenerate(<<players[0].traces[1], players[0].traces[2]>>)

(* ---- restart ---- *)
(* the state TronGame() is built in, written out *)
FreshAgent ==
    [pos |-> <<-50 * Scale, 0>>, direction |-> 0, speed |-> 60,
     traces |-> <<<<-50 * Scale, 0>>>>, dead |-> FALSE]

(* C12: a GameView.think that replaces the game had the right app button  *)
(* pressed and a match that was done after its own tick (done before, or   *)
(* every agent dead after Board.think with the tick's input), and it       *)
(* leaves the initial state: not done, duration 0, one alive agent at      *)
(* (-50, 0) with direction 0 and the single waypoint (-50, 0).             *)
C12_RestartProtocol ==
    [][(op'[1] = "new") =>
          /\ op'[2] = TRUE
          /\ \/ done
             \/ \A id \in DOMAIN players :
                   board_think(players, op'[3], op'[4], <<0>>)[id].dead
          /\ players' = (0 :> FreshAgent)
          /\ ~done'
          /\ duration' = 0
          /\ start_time' = now']_vars

(* a match restarted after its agent had turned, run on and died, with a   *)
(* petal held in the restarting tick                                       *)
C12_Witness ==
    /\ Len(op) = 4
    /\ op[1] = "new"
    /\ op[2] = TRUE
    /\ op[3] # {}
    /\ now >= 3
    /\ players = (0 :> FreshAgent)
    /\ ~done
    /\ duration = 0

(* ---- the same direction again ---- *)
(* C13: set_direction with the direction the agent already has changes     *)
(* nothing; no call adds more than one waypoint, and after any call the    *)
(* same call repeated after any movement (a petal held over the following   *)
(* ticks) adds none.                                                       *)
C13_SameDirectionNoOp ==
    [][(op'[1] = "set_direction") =>
          /\ op'[2] = players[0].direction => players'[0] = players[0]
          /\ Len(players'[0].traces) <= Len(players[0].traces) + 1
          /\ \A delta_ms \in Deltas :
                set_direction(move(players'[0], delta_ms), op'[2])
                    = move(players'[0], delta_ms)]_vars

(* an agent that turned, moved on and was then given its own direction:   *)
(* the last waypoint is still the turning point                            *)
C13_Witness ==
    /\ op[1] = "set_direction"
    /\ op[2] = players[0].direction
    /\ op[2] # 0
    /\ ~players[0].dead
    /\ Len(players[0].traces) = 2
    /\ players[0].pos # players[0].traces[2]

(* ---- segments on one line ---- *)
Min(x, y) == IF x <= y THEN x ELSE y
Max(x, y) == IF x <= y THEN y ELSE x

(* the coordinate along which a non-degenerate segment extends *)
Axis(a) == IF a[1][1] # a[2][1] THEN 1 ELSE 2

(* two segments of one line share a stretch of positive length *)
OverlapInMoreThanOnePoint(a, b) ==
    /\ OnOneLine(a, b)
    /\ Max(Min(a[1][Axis(a)], a[2][Axis(a)]), Min(b[1][Axis(a)], b[2][Axis(a)]))
         < Min(Max(a[1][Axis(a)], a[2][Axis(a)]), Max(b[1][Axis(a)], b[2][Axis(a)]))

(* C14: two distinct non-degenerate segments that lie on one line and      *)
(* overlap in more than one point collide.                                 *)
C14_CoincidentCollide ==
    (/\ hit # <<>>
     /\ segA # segB
     /\ NonDegenerate(segA)
     /\ NonDegenerate(segB)
     /\ OverlapInMoreThanOnePoint(segA, segB))
    => hit = <<TRUE>>

(* collides has answered for a segment and a proper part of it that runs   *)
(* the other way                                                           *)
C14_Witness ==
    /\ hit = <<TRUE>>
    /\ NonDegenerate(segA)
    /\ NonDegenerate(segB)
    /\ OverlapInMoreThanOnePoint(segA, segB)
    /\ SharedEndpoints(segA, segB) = {segA[1]}
    /\ segA[1] = segB[2]

(* ---- one snapshot per tick ---- *)
(* the segments of one trail, as a set *)
TrailSegments(p) ==
    {<<TrailPoints(p)[k], TrailPoints(p)[k + 1]>> : k \in 1..Len(p.traces)}

(* every segment of every agent, gathered once *)
Snapshot(ps) == UNION {TrailSegments(ps[id]) : id \in DOMAIN ps}

(* the flag of agent id after a reference tick from ps to qs: dead before, *)
(* or moved out of the arena, or its live segment hits some segment of the *)
(* frozen set other than itself                                            *)
ReferenceDead(ps, qs, id) ==
    \/ ps[id].dead
    \/ ~InsideCircle(qs[id].pos)
    \/ \E t \in Snapshot(qs) : t # Live(qs[id]) /\ collides(Live(qs[id]), t)

(* C15: after a tick, in either iteration order, every agent's flag is the *)
(* flag of the reference tick on the single snapshot taken after all moves. *)
C15_SnapshotEquivalence ==
    [][(op' \in Thinks) =>
          \A id \in DOMAIN players :
              players'[id].dead = ReferenceDead(players, players', id)]_vars

(* a tick in which the steered agent, after a turn, and the other agent    *)
(* ran into each other inside the arena: each is killed by a segment of    *)
(* the other, whichever is checked first                                   *)
C15_Witness ==
    /\ DOMAIN players = {0, 1}
    /\ op \in Thinks
    /\ Len(players[0].traces) = 2
    /\ Len(players[1].traces) = 1
    /\ \A i \in {0, 1} :
          /\ players[i].dead
          /\ InsideCircle(players[i].pos)
          /\ NoZeroLength(players[i])
          /\ \E t \in TrailSegments(players[1 - i]) :
                collides(Live(players[i]), t)
    /\ now = start_time + duration

(* ---- the segment just finished ---- *)
(* the last segment between two waypoints *)
PreviousSegment(p) == <<p.traces[Len(p.traces) - 1], p.traces[Len(p.traces)]>>

(* C16: an agent with at least two waypoints has a live segment that does  *)
(* not collide with the segment between its last two waypoints.            *)
C16_NoHitOnPreviousSegment ==
    \A id \in DOMAIN players :
        Len(players[id].traces) >= 2 =>
            ~collides(Live(players[id]), PreviousSegment(players[id]))

(* ---- the finished flag ---- *)
AllDead(ps) == {id \in DOMAIN ps : ~ps[id].dead} = {}

(* C17: after every TronGame.think the finished flag is set exactly when   *)
(* every agent is dead, and it turns from unset to set exactly in a tick   *)
(* that starts with an agent alive and ends with none.                     *)
C17_FinishedTracksGameOver ==
    [][(op' \in Thinks) =>
          /\ done' = AllDead(players')
          /\ (~done /\ done') = (~AllDead(players) /\ AllDead(players'))]_vars

(* after a tick one agent is dead, the other alive, and the match goes on  *)
C17_Witness ==
    /\ DOMAIN players = {0, 1}
    /\ op \in Thinks
    /\ \E i \in {0, 1} : players[i].dead /\ ~players[1 - i].dead
    /\ ~done
    /\ duration = 0

(* ---- the petals of one tick ---- *)
UpperPetals == {0, 2, 4, 6, 8}
Lowest(S) == CHOOSE i \in S : \A j \in S : i <= j

(* C18: a Board.think leaves the other agent's direction and waypoints      *)
(* alone; with no upper petal pressed it leaves the local agent's too;      *)
(* otherwise the local agent gets the direction of the lowest pressed upper *)
(* petal, and one waypoint (its position before the move) exactly when that *)
(* direction is new, whatever else is pressed.  So the waypoint list grows  *)
(* by at most one and the direction is one of 0, 72, 144, 216, 288.         *)
C18_FirstMatchWins ==
    [][(op'[1] = "board_think") =>
          LET on == op'[2] \cap UpperPetals
              p == players[0]
              q == players'[0]
          IN  /\ players'[1].direction = players[1].direction
              /\ players'[1].traces = players[1].traces
              /\ on = {} => (q.direction = p.direction /\ q.traces = p.traces)
              /\ on # {} =>
                    /\ q.direction = Lowest(on) * 36
                    /\ q.traces = IF Lowest(on) * 36 = p.direction
                                  THEN p.traces
                                  ELSE Append(p.traces, p.pos)
              /\ Len(q.traces) <= Len(p.traces) + 1
              /\ q.direction \in {0, 72, 144, 216, 288}]_vars

(* petal 0 pressed together with another upper petal while the agent heads *)
(* in direction 0 already: the agent has moved on without a waypoint       *)
C18_Witness ==
    /\ op[1] = "board_think"
    /\ 0 \in op[2]
    /\ op[2] \cap {2, 4, 6, 8} # {}
    /\ players[0].direction = 0
    /\ Len(players[0].traces) = 1
    /\ players[0].pos # players[0].traces[1]
    /\ ~players[0].dead

(* ---- dead agents ---- *)
(* C19: a tick leaves the position of every agent that was dead before it *)
(* unchanged, whatever the input and delta_ms.                             *)
C19_DeadAgentStays ==
    [][(op' \in Thinks) =>
          \A id \in DOMAIN players :
              players[id].dead => players'[id].pos = players[id].pos]_vars

(* a tick after the end of the match, with an agent lying outside the      *)
(* arena where it died                                                     *)
C19_Witness ==
    /\ DOMAIN players = {0, 1}
    /\ op \in Thinks
    /\ done
    /\ now > start_time + duration
    /\ \E id \in DOMAIN players :
          players[id].dead /\ ~InsideCircle(players[id].pos)

(* ---- the match nobody steers ---- *)
(* C20: with no petal ever pressed and ticks with delta_ms > 0 arriving    *)
(* again and again, from some tick on the agent is dead and the match is   *)
(* done for good.                                                          *)
C20_DefaultMatchEnds == <>[](done /\ players[0].dead)

(* the unsteered agent lies dead above its spawn point, outside the arena, *)
(* and a tick has come after the one that ended the match                  *)
C20_Witness ==
    /\ done
    /\ players[0].dead
    /\ NeverTurned(players[0])
    /\ players[0].pos[1] = -50 * Scale
    /\ ~InsideCircle(players[0].pos)
    /\ op \in Thinks
    /\ now > start_time + duration

====
